---------------------------- MODULE Spec2Model ----------------------------
(***************************************************************************)
(* Model of the FoundryIQ / Agent Framework demo backend:                  *)
(*   src/app/backend/agents/orchestrator.py  (route_query,                 *)
(*       run_single_query, run_orchestrator)                               *)
(*   src/app/backend/main.py                 (POST /chat)                  *)
(*                                                                         *)
(* Texts are sequences of one-character strings, so that lower(), strip()  *)
(* and the substring test `kw in text` are computed character by          *)
(* character.  Python objects whose attributes are probed with hasattr()   *)
(* are records whose DOMAIN is the set of attributes the object has.       *)
(***************************************************************************)
EXTENDS Integers, Sequences, FiniteSets, TLC

VARIABLES
    \* ---- a stand-alone call of route_query (specification SpecRoute)
    rqPc,          \* "await" | "returned"
    rqReply,       \* response.text of the router agent
    rqRoute,       \* value returned by route_query
    \* ---- POST /chat requests (specifications Spec and SpecConc)
    pc,            \* request -> position in chat() / run_single_query()
    query,         \* request -> request.message
    handles,       \* request -> handle name -> "none" | "open" | "closed"
    routerReply,   \* request -> response.text of the router agent
    route,         \* request -> local variable route
    response,      \* request -> response object of the specialist
    sources,       \* request -> local variable sources
    origin,        \* request -> response attribute the sources were taken from
    calls,         \* request -> agent runs awaited so far, in order
    http,          \* request -> HTTP response sent by chat()
    raised,        \* request -> exception that reached chat()'s except clause
    \* ---- the interactive loop of run_orchestrator (specification SpecLoop)
    lpc,           \* "input" | "routing" | "answering" | "done"
    lquery,        \* local variable query
    lroute,        \* local variable route
    lcalls,        \* agent runs awaited in the current iteration
    levent,        \* what the loop consumed last
    lcred          \* the loop's credential: "open" | "closed"

routeVars == <<rqPc, rqReply, rqRoute>>
chatVars  == <<pc, query, handles, routerReply, route, response, sources,
               origin, calls, http, raised>>
loopVars  == <<lpc, lquery, lroute, lcalls, levent, lcred>>
vars      == <<rqPc, rqReply, rqRoute,
               pc, query, handles, routerReply, route, response, sources,
               origin, calls, http, raised,
               lpc, lquery, lroute, lcalls, levent, lcred>>

---------------------------------------------------------------------------
\* Bounds of the model

\* longest router reply, in fragments, of the stand-alone route_query call
MaxFrags == 2
\* longest citations / context / grounding_data list of a specialist response
MaxItems == 2
\* number of concurrent /chat requests in SpecConc
NumRequests == 2

---------------------------------------------------------------------------
\* Text: str.lower(), str.strip(), `kw in text`

UpperCase == {"A", "B", "C", "D", "E", "F", "G", "H", "I", "J", "K", "L", "M",
              "N", "O", "P", "Q", "R", "S", "T", "U", "V", "W", "X", "Y", "Z"}

LowerOf == [c \in UpperCase |->
    CASE c = "A" -> "a" [] c = "B" -> "b" [] c = "C" -> "c" [] c = "D" -> "d"
      [] c = "E" -> "e" [] c = "F" -> "f" [] c = "G" -> "g" [] c = "H" -> "h"
      [] c = "I" -> "i" [] c = "J" -> "j" [] c = "K" -> "k" [] c = "L" -> "l"
      [] c = "M" -> "m" [] c = "N" -> "n" [] c = "O" -> "o" [] c = "P" -> "p"
      [] c = "Q" -> "q" [] c = "R" -> "r" [] c = "S" -> "s" [] c = "T" -> "t"
      [] c = "U" -> "u" [] c = "V" -> "v" [] c = "W" -> "w" [] c = "X" -> "x"
      [] c = "Y" -> "y" [] c = "Z" -> "z"]

LowerChar(c) == IF c \in UpperCase THEN LowerOf[c] ELSE c

\* str.lower()
Lower(s) == [i \in 1..Len(s) |-> LowerChar(s[i])]

Whitespace == {" ", "\t", "\n", "\r"}

RECURSIVE LStrip(_)
LStrip(s) == IF s # <<>> /\ Head(s) \in Whitespace THEN LStrip(Tail(s)) ELSE s

RECURSIVE RStrip(_)
RStrip(s) == IF s # <<>> /\ s[Len(s)] \in Whitespace
             THEN RStrip(SubSeq(s, 1, Len(s) - 1))
             ELSE s

\* str.strip()
Strip(s) == RStrip(LStrip(s))

\* kw in s
Contains(s, kw) ==
    \E i \in 1..(Len(s) - Len(kw) + 1) : SubSeq(s, i, i + Len(kw) - 1) = kw

KW_hr        == <<"h", "r">>
KW_marketing == <<"m", "a", "r", "k", "e", "t", "i", "n", "g">>
KW_brand     == <<"b", "r", "a", "n", "d">>
KW_campaign  == <<"c", "a", "m", "p", "a", "i", "g", "n">>
KW_product   == <<"p", "r", "o", "d", "u", "c", "t">>

Categories == {"hr", "marketing", "products"}

---------------------------------------------------------------------------
\* route_query: the normalisation of the router agent's reply

\* a plausible slip: the products test moved in front of the marketing test
NormaliseProductsFirst(r) ==
    IF Contains(r, KW_hr) THEN "hr"
    ELSE IF Contains(r, KW_product) THEN "products"
    ELSE IF Contains(r, KW_marketing) \/ Contains(r, KW_brand)
            \/ Contains(r, KW_campaign) THEN "marketing"
    ELSE "hr"

\* the if / elif chain on `route`
Normalise(r) ==
    IF Contains(r, KW_hr) THEN "hr"
    ELSE IF Contains(r, KW_marketing) \/ Contains(r, KW_brand)
            \/ Contains(r, KW_campaign) THEN "marketing"
    ELSE IF Contains(r, KW_product) THEN "products"
    ELSE "hr"

\* route = response.text.strip().lower(), then the chain
RouteOfReply(text) == Normalise(Lower(Strip(text)))

\* Replies of the router agent: every concatenation of at most MaxFrags
\* fragments; keywords in several letter cases, keywords split over two
\* fragments, whitespace and filler.
Fragments == {
    <<"h", "r">>, <<"H", "R">>, <<"h">>, <<"R">>,
    <<"m", "a", "r", "k", "e", "t", "i", "n", "g">>,
    <<"B", "r", "a", "n", "d">>,
    <<"c", "a", "m", "p", "a", "i", "g", "n">>,
    <<"p", "r", "o", "d", "u", "c", "t">>,
    <<"P", "R", "O", "D", "U", "C", "T", "S">>,
    <<"c", "a", "m", "p">>, <<"a", "i", "g", "n">>,
    <<" ">>, <<"\n">>, <<"x">> }

RECURSIVE Flatten(_)
Flatten(ss) == IF ss = <<>> THEN <<>> ELSE Head(ss) \o Flatten(Tail(ss))

Texts == UNION { { Flatten(fs) : fs \in [1..n -> Fragments] } : n \in 0..MaxFrags }

InitRoute ==
    /\ rqPc = "await"
    /\ rqReply = <<>>
    /\ rqRoute = "none"

\* response = await client.run(message); ...; return
RouteQuery(texts) ==
    /\ rqPc = "await"
    /\ rqPc' = "returned"
    /\ \E text \in texts :
        /\ rqReply' = text
        /\ rqRoute' = RouteOfReply(text)
    /\ UNCHANGED <<chatVars, loopVars>>

NextRoute == RouteQuery(Texts)

---------------------------------------------------------------------------
\* run_single_query: the objects it builds

Requests == 1..NumRequests

\* DefaultAzureCredential() and the four context managers of the async with
ContextNames == <<"client", "hr_kb", "marketing_kb", "products_kb">>
HandleNames  == {"credential"} \cup {ContextNames[i] : i \in 1..Len(ContextNames)}

\* knowledge_base_name of each AzureAISearchContextProvider
KnowledgeBaseName ==
    [hr_kb |-> "kb1-hr", marketing_kb |-> "kb2-marketing", products_kb |-> "kb3-products"]

\* a plausible slip: two specialists built on each other's provider
SpecialistsSwapped ==
    [hr        |-> [context_provider |-> "hr_kb",        instructions |-> "HR_INSTRUCTIONS"],
     marketing |-> [context_provider |-> "products_kb",  instructions |-> "MARKETING_INSTRUCTIONS"],
     products  |-> [context_provider |-> "marketing_kb", instructions |-> "PRODUCTS_INSTRUCTIONS"]]

\* the dict `specialists`
Specialists ==
    [hr        |-> [context_provider |-> "hr_kb",        instructions |-> "HR_INSTRUCTIONS"],
     marketing |-> [context_provider |-> "marketing_kb", instructions |-> "MARKETING_INSTRUCTIONS"],
     products  |-> [context_provider |-> "products_kb",  instructions |-> "PRODUCTS_INSTRUCTIONS"]]

\* the dict `kb_map`
KbMap == [hr |-> "kb1-hr", marketing |-> "kb2-marketing", products |-> "kb3-products"]

\* kb_map.get(route, "unknown")
KbName(rt) == IF rt \in DOMAIN KbMap THEN KbMap[rt] ELSE "unknown"

\* a plausible slip: clients built once at module level and shared by all requests
HandleOfShared(r, name) == <<1, name>>

\* the handle a request reaches through its local variables client, hr_kb, ...
HandleOf(r, name) == <<r, name>>

\* router.run(message) as called by route_query
RouterCall(r, q) ==
    [agent |-> "router", via |-> HandleOf(r, "client"), kb |-> "none", text |-> q]

\* a plausible slip: the specialist chosen by the keywords of the query itself
SpecialistCallByQuery(r, rt, q) ==
    [agent |-> RouteOfReply(q),
     via   |-> HandleOf(r, Specialists[RouteOfReply(q)].context_provider),
     kb    |-> KnowledgeBaseName[Specialists[RouteOfReply(q)].context_provider],
     text  |-> q]

\* specialists[route].run(ChatMessage(role=Role.USER, text=query))
SpecialistCall(r, rt, q) ==
    [agent |-> rt,
     via   |-> HandleOf(r, Specialists[rt].context_provider),
     kb    |-> KnowledgeBaseName[Specialists[rt].context_provider],
     text  |-> q]

---------------------------------------------------------------------------
\* run_single_query: extraction of the sources

\* if hasattr(o, attr) and o.<attr>: source_info[key] = o.<attr>
TruthyField(o, attr, key) ==
    IF attr \in DOMAIN o /\ o[attr] # "" THEN key :> o[attr] ELSE << >>

\* if hasattr(o, attr): source_info[key] = o.<attr>
PresentField(o, attr, key) ==
    IF attr \in DOMAIN o THEN key :> o[attr] ELSE << >>

\* source_info built from one citation
CitationInfo(kb, c) ==
    [kb |-> kb] @@ TruthyField(c, "title", "title")
                @@ TruthyField(c, "filepath", "filepath")
                @@ TruthyField(c, "url", "url")
                @@ TruthyField(c, "chunk_id", "chunk_id")

\* source_info built from one item of response.context
ContextInfo(kb, x) ==
    [kb |-> kb] @@ PresentField(x, "title", "title")
                @@ PresentField(x, "source", "filepath")

\* source_info built from one item of response.grounding_data
GroundingInfo(kb, d) ==
    [kb |-> kb] @@ PresentField(d, "title", "title")
                @@ PresentField(d, "filepath", "filepath")

\* if len(source_info) > 1: sources.append(source_info)
MoreThanKb(info) == Cardinality(DOMAIN info) > 1

\* hasattr(response, attr) and response.<attr>
HasTruthy(resp, attr) == attr \in DOMAIN resp /\ resp[attr] # <<>>

FromCitations(resp, kb) ==
    IF HasTruthy(resp, "citations")
    THEN SelectSeq([i \in 1..Len(resp.citations) |-> CitationInfo(kb, resp.citations[i])],
                   MoreThanKb)
    ELSE <<>>

FromContext(resp, kb) ==
    IF HasTruthy(resp, "context")
    THEN SelectSeq([i \in 1..Len(resp.context) |-> ContextInfo(kb, resp.context[i])],
                   MoreThanKb)
    ELSE <<>>

FromGrounding(resp, kb) ==
    IF HasTruthy(resp, "grounding_data")
    THEN SelectSeq([i \in 1..Len(resp.grounding_data) |->
                        GroundingInfo(kb, resp.grounding_data[i])],
                   MoreThanKb)
    ELSE <<>>

\* the dict `default_docs`
DefaultDocs(kb) ==
    [hr |-> << [kb |-> kb, title |-> "Employee_Handbook.pdf",
                filepath |-> "hr-policies/Employee_Handbook.pdf"],
               [kb |-> kb, title |-> "PTO_Policy_2024.docx",
                filepath |-> "hr-policies/PTO_Policy_2024.docx"],
               [kb |-> kb, title |-> "Benefits_Guide.pdf",
                filepath |-> "hr-policies/Benefits_Guide.pdf"] >>,
     marketing |-> << [kb |-> kb, title |-> "Brand_Guidelines.pdf",
                       filepath |-> "marketing/Brand_Guidelines.pdf"],
                      [kb |-> kb, title |-> "Campaign_Playbook.pptx",
                       filepath |-> "marketing/Campaign_Playbook.pptx"] >>,
     products |-> << [kb |-> kb, title |-> "Product_Catalog_2024.xlsx",
                      filepath |-> "products/Product_Catalog_2024.xlsx"],
                     [kb |-> kb, title |-> "Specifications.pdf",
                      filepath |-> "products/Specifications.pdf"] >>]

\* a plausible slip: the default list taken without looking at the route
DefaultSourcesIgnoreRoute(rt, kb) == DefaultDocs(kb)["hr"]

\* default_docs.get(route, [{"kb": kb_name, "title": "Knowledge Base", "filepath": kb_name}])
DefaultSources(rt, kb) ==
    IF rt \in DOMAIN DefaultDocs(kb) THEN DefaultDocs(kb)[rt]
    ELSE << [kb |-> kb, title |-> "Knowledge Base", filepath |-> kb] >>

\* the three probes and the default, each guarded by `not sources`:
\* the list returned and the attribute it was taken from
Extract(resp, rt) ==
    LET kb == KbName(rt)
        s1 == FromCitations(resp, kb)
        s2 == IF s1 = <<>> THEN FromContext(resp, kb) ELSE s1
        s3 == IF s2 = <<>> THEN FromGrounding(resp, kb) ELSE s2
        s4 == IF s3 = <<>> THEN DefaultSources(rt, kb) ELSE s3
    IN  [sources |-> s4,
         origin  |-> IF s1 # <<>> THEN "citations"
                     ELSE IF s2 # <<>> THEN "context"
                     ELSE IF s3 # <<>> THEN "grounding_data"
                     ELSE "default"]

---------------------------------------------------------------------------
\* What the outside world can hand to a request

Q_ProductSpecs  == <<"W", "h", "a", "t", " ", "a", "r", "e", " ", "t", "h", "e", " ",
                     "p", "r", "o", "d", "u", "c", "t", " ", "s", "p", "e", "c", "s", "?">>
Q_BrandCampaign == <<"T", "e", "l", "l", " ", "m", "e", " ", "a", "b", "o", "u", "t", " ",
                     "o", "u", "r", " ", "b", "r", "a", "n", "d", " ",
                     "c", "a", "m", "p", "a", "i", "g", "n">>
Q_Empty         == <<>>

R_hr        == <<"h", "r">>
R_Marketing == <<" ", "M", "a", "r", "k", "e", "t", "i", "n", "g", "\n">>
R_products  == <<"p", "r", "o", "d", "u", "c", "t", "s">>
R_unsure    == <<"u", "n", "s", "u", "r", "e">>

\* exceptions, as (type, message); str(e) is the message
Str(e) == e.msg

E_Import  == [type |-> "ModuleNotFoundError", msg |-> "No module named 'agent_framework'"]
E_Auth    == [type |-> "ClientAuthenticationError", msg |-> "DefaultAzureCredential failed"]
E_Service == [type |-> "ServiceResponseError", msg |-> "connection reset"]
E_Close   == [type |-> "RuntimeError", msg |-> "session is closed"]
\* raised by `response.text` on a response object without that attribute
E_NoText  == [type |-> "AttributeError", msg |-> "object has no attribute 'text'"]

\* items of response.citations / response.context / response.grounding_data
CitationItems == {
    [title |-> "Employee_Handbook.pdf", filepath |-> "hr/Employee_Handbook.pdf",
     url |-> "https://kb/doc1", chunk_id |-> "c1"],
    [title |-> "", url |-> "https://kb/doc2"],
    [title |-> "", filepath |-> ""] }
ContextItems == {
    [title |-> "PTO policy", source |-> "hr/pto.md"],
    [title |-> ""],
    [score |-> "0.9"] }
GroundingItems == {
    [title |-> "Catalog", filepath |-> "products/catalog.xlsx"],
    [id |-> "7"] }

\* lists of at most MaxItems items
Lists(items) == UNION { [1..n -> items] : n \in 0..MaxItems }

\* an attribute the response may lack, or hold with any such list
Attr(name, items) == {<< >>} \cup { name :> l : l \in Lists(items) }

\* response objects of a specialist: with text and any combination of the
\* three probed attributes, and one without text
Responses ==
    { [text |-> "answer"] @@ c @@ x @@ g :
        c \in Attr("citations", CitationItems),
        x \in Attr("context", ContextItems),
        g \in Attr("grounding_data", GroundingItems) }
    \cup { [context |-> << [title |-> "PTO policy", source |-> "hr/pto.md"] >>] }

\* the inputs of a request handled alone
SoloInputs ==
    [queries   |-> {Q_ProductSpecs, Q_BrandCampaign, Q_Empty},
     replies   |-> {R_hr, R_Marketing, R_products, R_unsure},
     responses |-> Responses,
     errors    |-> {E_Auth, E_Service}]

\* the inputs of each of the concurrent requests
ConcInputs ==
    [queries   |-> {Q_ProductSpecs, Q_BrandCampaign},
     replies   |-> {R_hr, R_products},
     responses |-> { [text |-> "answer"],
                     [text |-> "answer", context |-> << [title |-> ""] >>] },
     errors    |-> {E_Service}]

---------------------------------------------------------------------------
\* POST /chat: chat() and run_single_query()

NoHttp == [status |-> 0]
NoError == [type |-> "none", msg |-> ""]

\* ChatResponse(message=response_text, agent=f"{route}-agent", sources=sources)
ChatResponse(rt, text, srcs) ==
    [status |-> 200, message |-> text, agent |-> rt \o "-agent", sources |-> srcs]

\* a plausible slip: the handler answers with what it has instead of raising
HTTPErrorPartial(e) ==
    [status |-> 200, message |-> Str(e), agent |-> "hr-agent", sources |-> <<>>]

\* raise HTTPException(status_code=500, detail=str(e))
HTTPError(e) == [status |-> 500, detail |-> Str(e)]

InitChat ==
    /\ pc          = [r \in Requests |-> "idle"]
    /\ query       = [r \in Requests |-> <<>>]
    /\ handles     = [r \in Requests |-> [h \in HandleNames |-> "none"]]
    /\ routerReply = [r \in Requests |-> <<>>]
    /\ route       = [r \in Requests |-> "none"]
    /\ response    = [r \in Requests |-> << >>]
    /\ sources     = [r \in Requests |-> <<>>]
    /\ origin      = [r \in Requests |-> "none"]
    /\ calls       = [r \in Requests |-> <<>>]
    /\ http        = [r \in Requests |-> NoHttp]
    /\ raised      = [r \in Requests |-> NoError]

\* an exception leaves the async with block (every entered context is exited)
\* and run_single_query, and reaches the except clause of chat()
Fail(r, e) ==
    /\ handles' = [handles EXCEPT ![r] =
                      [h \in HandleNames |->
                          IF h # "credential" /\ @[h] = "open" THEN "closed" ELSE @[h]]]
    /\ raised' = [raised EXCEPT ![r] = e]
    /\ http' = [http EXCEPT ![r] = HTTPError(e)]
    /\ pc' = [pc EXCEPT ![r] = "done"]

\* the request arrives: chat(request) is entered
Chat(r, qs) ==
    /\ pc[r] = "idle"
    /\ pc' = [pc EXCEPT ![r] = "import"]
    /\ \E q \in qs : query' = [query EXCEPT ![r] = q]
    /\ UNCHANGED <<handles, routerReply, route, response, sources, origin, calls, http, raised>>
    /\ UNCHANGED <<routeVars, loopVars>>

\* the lazy import succeeds; run_single_query builds the credential and kb_map
\* and starts entering the four contexts
ImportOk(r) ==
    /\ pc[r] = "import"
    /\ pc' = [pc EXCEPT ![r] = "enter"]
    /\ handles' = [handles EXCEPT ![r]["credential"] = "open"]
    /\ UNCHANGED <<query, routerReply, route, response, sources, origin, calls, http, raised>>
    /\ UNCHANGED <<routeVars, loopVars>>

\* the lazy import raises
ImportRaise(r) ==
    /\ pc[r] = "import"
    /\ Fail(r, E_Import)
    /\ UNCHANGED <<query, routerReply, route, response, sources, origin, calls>>
    /\ UNCHANGED <<routeVars, loopVars>>

\* the four contexts are entered; router and specialists are built;
\* route_query awaits the router agent
EnterOk(r) ==
    /\ pc[r] = "enter"
    /\ pc' = [pc EXCEPT ![r] = "route"]
    /\ handles' = [handles EXCEPT ![r] =
                      [h \in HandleNames |-> IF h = "credential" THEN @[h] ELSE "open"]]
    /\ calls' = [calls EXCEPT ![r] = Append(@, RouterCall(r, query[r]))]
    /\ UNCHANGED <<query, routerReply, route, response, sources, origin, http, raised>>
    /\ UNCHANGED <<routeVars, loopVars>>

\* entering one of the contexts raises; the ones before it are exited
EnterRaise(r, errs) ==
    /\ pc[r] = "enter"
    /\ \E k \in 1..Len(ContextNames), e \in errs :
        /\ handles' = [handles EXCEPT ![r] =
                          [h \in HandleNames |->
                              IF \E i \in 1..(k - 1) : ContextNames[i] = h
                              THEN "closed" ELSE @[h]]]
        /\ raised' = [raised EXCEPT ![r] = e]
        /\ http' = [http EXCEPT ![r] = HTTPError(e)]
    /\ pc' = [pc EXCEPT ![r] = "done"]
    /\ UNCHANGED <<query, routerReply, route, response, sources, origin, calls>>
    /\ UNCHANGED <<routeVars, loopVars>>

\* the router agent answers: route_query returns, the specialist is looked up
\* and its run is awaited
RouterReply(r, texts) ==
    /\ pc[r] = "route"
    /\ \E text \in texts :
        LET rt == RouteOfReply(text) IN
        /\ routerReply' = [routerReply EXCEPT ![r] = text]
        /\ route' = [route EXCEPT ![r] = rt]
        /\ calls' = [calls EXCEPT ![r] = Append(@, SpecialistCall(r, rt, query[r]))]
    /\ pc' = [pc EXCEPT ![r] = "agent"]
    /\ UNCHANGED <<query, handles, response, sources, origin, http, raised>>
    /\ UNCHANGED <<routeVars, loopVars>>

\* the router agent's run raises
RouterRaise(r, errs) ==
    /\ pc[r] = "route"
    /\ \E e \in errs : Fail(r, e)
    /\ UNCHANGED <<query, routerReply, route, response, sources, origin, calls>>
    /\ UNCHANGED <<routeVars, loopVars>>

\* the specialist answers: the sources are extracted and the return statement
\* is reached, which leaves the async with block
AgentReply(r, resps) ==
    /\ pc[r] = "agent"
    /\ \E resp \in resps :
        /\ response' = [response EXCEPT ![r] = resp]
        /\ LET x == Extract(resp, route[r]) IN
            /\ sources' = [sources EXCEPT ![r] = x.sources]
            /\ origin' = [origin EXCEPT ![r] = x.origin]
        /\ IF "text" \in DOMAIN resp
           THEN /\ pc' = [pc EXCEPT ![r] = "exit"]
                /\ UNCHANGED <<handles, http, raised>>
           ELSE Fail(r, E_NoText)
    /\ UNCHANGED <<query, routerReply, route, calls>>
    /\ UNCHANGED <<routeVars, loopVars>>

\* a plausible slip: a failed specialist run is awaited again
AgentRaiseRetry(r, errs) ==
    /\ pc[r] = "agent"
    /\ calls' = [calls EXCEPT ![r] = Append(@, SpecialistCall(r, route[r], query[r]))]
    /\ UNCHANGED <<pc, query, handles, routerReply, route, response, sources, origin,
                   http, raised>>
    /\ UNCHANGED <<routeVars, loopVars>>

\* the specialist's run raises
AgentRaise(r, errs) ==
    /\ pc[r] = "agent"
    /\ \E e \in errs : Fail(r, e)
    /\ UNCHANGED <<query, routerReply, route, response, sources, origin, calls>>
    /\ UNCHANGED <<routeVars, loopVars>>

\* the contexts are exited and run_single_query returns (route, response.text,
\* sources) from inside the block; chat() builds the ChatResponse.  The
\* statement after the block, `await credential.close()`, is not reached.
ExitOk(r) ==
    /\ pc[r] = "exit"
    /\ handles' = [handles EXCEPT ![r] =
                      [h \in HandleNames |-> IF h = "credential" THEN @[h] ELSE "closed"]]
    /\ http' = [http EXCEPT ![r] = ChatResponse(route[r], response[r].text, sources[r])]
    /\ pc' = [pc EXCEPT ![r] = "done"]
    /\ UNCHANGED <<query, routerReply, route, response, sources, origin, calls, raised>>
    /\ UNCHANGED <<routeVars, loopVars>>

\* exiting a context raises
ExitRaise(r) ==
    /\ pc[r] = "exit"
    /\ Fail(r, E_Close)
    /\ UNCHANGED <<query, routerReply, route, response, sources, origin, calls>>
    /\ UNCHANGED <<routeVars, loopVars>>

\* one step of request r, its inputs drawn from `in`
ReqStep(r, in) ==
    \/ Chat(r, in.queries)
    \/ ImportOk(r)
    \/ ImportRaise(r)
    \/ EnterOk(r)
    \/ EnterRaise(r, in.errors)
    \/ RouterReply(r, in.replies)
    \/ RouterRaise(r, in.errors)
    \/ AgentReply(r, in.responses)
    \/ AgentRaise(r, in.errors)
    \/ ExitOk(r)
    \/ ExitRaise(r)

\* one request at a time
Next == ReqStep(1, SoloInputs)

\* NumRequests requests, interleaved at their await points
NextConc == \E r \in Requests : ReqStep(r, ConcInputs)

---------------------------------------------------------------------------
\* run_orchestrator: the interactive loop

W_quit == <<"q", "u", "i", "t">>
W_exit == <<"e", "x", "i", "t">>
W_q    == <<"q">>

\* the list ["quit", "exit", "q"]
QuitWords == {W_quit, W_exit, W_q}

\* what input() can return
Lines == {
    <<>>, <<" ", " ">>, <<"\t">>,
    W_quit, <<" ", "Q", "U", "I", "T", " ">>, <<"E", "x", "i", "t">>, <<"Q">>,
    <<"q", "u", "i", "t", " ", "n", "o", "w">>,
    Q_ProductSpecs, Q_BrandCampaign, <<"P", "T", "O", "?">> }

E_EOF == [type |-> "EOFError", msg |-> "EOF when reading a line"]

InitLoop ==
    /\ lpc = "input"
    /\ lquery = <<>>
    /\ lroute = "none"
    /\ lcalls = <<>>
    /\ levent = [kind |-> "start"]
    /\ lcred = "open"

\* a plausible slip: the handler of Exception leaves the loop
AfterExceptionBreak == "done"

\* except Exception as e: print(...)  -- the while loop goes on
AfterException == "input"

\* query.lower() in ["quit", "exit", "q"]
IsQuit(q) == Lower(q) \in QuitWords

\* break: the async with block is left and `await credential.close()` runs
Leave ==
    /\ lpc' = "done"
    /\ lcred' = "closed"

\* input() returns a line
LoopInput ==
    /\ lpc = "input"
    /\ \E line \in Lines :
        LET q == Strip(line) IN
        /\ lquery' = q
        /\ levent' = [kind |-> "input", line |-> line]
        /\ IF q = <<>>
           THEN /\ lpc' = "input"
                /\ lcalls' = <<>>
                /\ UNCHANGED <<lroute, lcred>>
           ELSE IF IsQuit(q)
           THEN /\ Leave
                /\ lcalls' = <<>>
                /\ UNCHANGED lroute
           ELSE /\ lpc' = "routing"
                /\ lcalls' = <<"router">>
                /\ UNCHANGED <<lroute, lcred>>
    /\ UNCHANGED <<routeVars, chatVars>>

\* input() raises (end of input)
LoopInputRaise ==
    /\ lpc = "input"
    /\ lpc' = AfterException
    /\ lcred' = IF AfterException = "done" THEN "closed" ELSE lcred
    /\ lcalls' = <<>>
    /\ levent' = [kind |-> "error", at |-> "input", msg |-> Str(E_EOF)]
    /\ UNCHANGED <<lquery, lroute>>
    /\ UNCHANGED <<routeVars, chatVars>>

\* KeyboardInterrupt inside the try block
LoopInterrupt ==
    /\ lpc \in {"input", "routing", "answering"}
    /\ Leave
    /\ levent' = [kind |-> "interrupt", at |-> lpc]
    /\ UNCHANGED <<lquery, lroute, lcalls>>
    /\ UNCHANGED <<routeVars, chatVars>>

\* route_query returns; the specialist's run is awaited
LoopRouterReply(texts) ==
    /\ lpc = "routing"
    /\ \E text \in texts :
        /\ lroute' = RouteOfReply(text)
        /\ lcalls' = Append(lcalls, RouteOfReply(text))
        /\ levent' = [kind |-> "routed", line |-> text]
    /\ lpc' = "answering"
    /\ UNCHANGED <<lquery, lcred>>
    /\ UNCHANGED <<routeVars, chatVars>>

\* route_query raises
LoopRouterRaise(errs) ==
    /\ lpc = "routing"
    /\ lpc' = AfterException
    /\ lcred' = IF AfterException = "done" THEN "closed" ELSE lcred
    /\ \E e \in errs : levent' = [kind |-> "error", at |-> "routing", msg |-> Str(e)]
    /\ UNCHANGED <<lquery, lroute, lcalls>>
    /\ UNCHANGED <<routeVars, chatVars>>

\* the specialist answers; response.text is printed
LoopAgentReply(resps) ==
    /\ lpc = "answering"
    /\ \E resp \in resps :
        IF "text" \in DOMAIN resp
        THEN /\ lpc' = "input"
             /\ levent' = [kind |-> "answered", text |-> resp.text]
             /\ UNCHANGED lcred
        ELSE /\ lpc' = AfterException
             /\ lcred' = IF AfterException = "done" THEN "closed" ELSE lcred
             /\ levent' = [kind |-> "error", at |-> "answering", msg |-> Str(E_NoText)]
    /\ UNCHANGED <<lquery, lroute, lcalls>>
    /\ UNCHANGED <<routeVars, chatVars>>

\* the specialist's run raises
LoopAgentRaise(errs) ==
    /\ lpc = "answering"
    /\ lpc' = AfterException
    /\ lcred' = IF AfterException = "done" THEN "closed" ELSE lcred
    /\ \E e \in errs : levent' = [kind |-> "error", at |-> "answering", msg |-> Str(e)]
    /\ UNCHANGED <<lquery, lroute, lcalls>>
    /\ UNCHANGED <<routeVars, chatVars>>

LoopStep ==
    \/ LoopInput
    \/ LoopInputRaise
    \/ LoopInterrupt
    \/ LoopRouterReply(SoloInputs.replies)
    \/ LoopRouterRaise(SoloInputs.errors)
    \/ LoopAgentReply(ConcInputs.responses \cup {[context |-> <<>>]})
    \/ LoopAgentRaise(SoloInputs.errors)

NextLoop == LoopStep

---------------------------------------------------------------------------
\* Specifications

Init == InitRoute /\ InitChat /\ InitLoop

\* one /chat request
Spec == Init /\ [][Next]_vars

\* concurrent /chat requests
SpecConc == Init /\ [][NextConc]_vars

\* a call of route_query
SpecRoute == Init /\ [][NextRoute]_vars

\* the interactive loop
SpecLoop == Init /\ [][NextLoop]_vars

---------------------------------------------------------------------------
\* Properties

\* kw occurs in text, letter case ignored
OccursAnyCase(text, kw) ==
    \E i \in 1..(Len(text) - Len(kw) + 1) :
        \A k \in 1..Len(kw) : LowerChar(text[i + k - 1]) = kw[k]

MarketingWord(text) ==
    \/ OccursAnyCase(text, KW_marketing)
    \/ OccursAnyCase(text, KW_brand)
    \/ OccursAnyCase(text, KW_campaign)

\* the ordered first-match rule, as the specification words it
FirstMatch(text) ==
    CASE OccursAnyCase(text, KW_hr) -> "hr"
      [] ~OccursAnyCase(text, KW_hr) /\ MarketingWord(text) -> "marketing"
      [] ~OccursAnyCase(text, KW_hr) /\ ~MarketingWord(text)
            /\ OccursAnyCase(text, KW_product) -> "products"
      [] OTHER -> "hr"

\* C1: whatever text route_query normalises, its result is the ordered
\* first-match rule on the lower-cased text: hr if "hr" occurs in any letter
\* case (whatever else occurs), else marketing on "marketing", "brand" or
\* "campaign", else products on "product", else hr; always one of the three.
C1_OrderedFirstMatch ==
    rqPc = "returned" =>
        /\ rqRoute \in Categories
        /\ rqRoute = FirstMatch(rqReply)
        /\ (OccursAnyCase(rqReply, KW_hr) => rqRoute = "hr")
        /\ (~OccursAnyCase(rqReply, KW_hr) /\ ~MarketingWord(rqReply)
                /\ ~OccursAnyCase(rqReply, KW_product) => rqRoute = "hr")

\* an upper-case "HR" beside "product" was normalised to hr
C1_Witness ==
    /\ rqPc = "returned"
    /\ OccursAnyCase(rqReply, KW_hr)
    /\ ~Contains(rqReply, KW_hr)
    /\ OccursAnyCase(rqReply, KW_product)
    /\ rqRoute = "hr"

\* the specialist run of request r, once it has been issued
Dispatched(r) == Len(calls[r]) >= 2

\* C2 as stated: the category a query is dispatched to is the keyword match
\* of the query text itself, whatever the external calls return.
C2_RoutedByQueryText ==
    \A r \in Requests :
        Dispatched(r) =>
            /\ calls[r][2].agent = FirstMatch(query[r])
            /\ (query[r] = Q_ProductSpecs => calls[r][2].agent = "products")
            /\ (query[r] = Q_BrandCampaign => calls[r][2].agent = "marketing")

\* C2 amended: the category a query is dispatched to is the keyword match of
\* the router agent's reply to it, not of the query text.
C2_RoutedByRouterReply ==
    \A r \in Requests :
        Dispatched(r) =>
            /\ calls[r][2].agent = FirstMatch(routerReply[r])
            /\ route[r] = calls[r][2].agent

\* "What are the product specs?" was dispatched to hr on the router's reply
C2_Witness ==
    /\ Dispatched(1)
    /\ query[1] = Q_ProductSpecs
    /\ routerReply[1] = R_hr
    /\ calls[1][2].agent = "hr"

\* the binding of category to knowledge source, as the specification words it
BoundKb == [hr |-> "kb1-hr", marketing |-> "kb2-marketing", products |-> "kb3-products"]

\* C3: once routing has returned, exactly one specialist is invoked, the one
\* bound to the classified category, with the unmodified query text; its
\* knowledge source is the fixed one of the category, the sources returned
\* carry that knowledge source's name, and the category lookup never misses.
C3_OneBoundSpecialist ==
    \A r \in Requests :
        /\ Len(calls[r]) <= 2
        /\ (Len(calls[r]) >= 1 => calls[r][1].agent = "router")
        /\ (route[r] # "none" =>
                /\ route[r] \in DOMAIN Specialists
                /\ route[r] \in DOMAIN BoundKb
                /\ Len(calls[r]) = 2
                /\ calls[r][2].agent = route[r]
                /\ calls[r][2].text = query[r]
                /\ calls[r][2].kb = BoundKb[route[r]])
        /\ (route[r] = "none" => Len(calls[r]) <= 1)
        /\ \A i \in 1..Len(sources[r]) : sources[r][i].kb = calls[r][2].kb
        /\ (http[r].status = 200 =>
                \A i \in 1..Len(http[r].sources) : http[r].sources[i].kb = calls[r][2].kb)

\* a marketing request answered with sources taken from the citations
C3_Witness ==
    /\ http[1].status = 200
    /\ route[1] = "marketing"
    /\ origin[1] = "citations"
    /\ query[1] = Q_BrandCampaign

\* what each probed attribute yields for request r
Yield(r, attr) ==
    CASE attr = "citations"      -> FromCitations(response[r], KbName(route[r]))
      [] attr = "context"        -> FromContext(response[r], KbName(route[r]))
      [] attr = "grounding_data" -> FromGrounding(response[r], KbName(route[r]))

\* a reference with at least one non-empty field besides its tag
NonEmptyReference(s) == \E k \in DOMAIN s \ {"kb"} : s[k] # ""

Extracted(r) == origin[r] # "none"

\* C4 as stated: the sources come from the first of citations, context,
\* grounding_data that yields a reference, a later attribute only when every
\* earlier one yielded none, and every reference taken from them has a
\* non-empty field besides its tag.
C4_FirstNonEmptyReference ==
    \A r \in Requests :
        Extracted(r) =>
            /\ (origin[r] = "citations" => sources[r] = Yield(r, "citations"))
            /\ (origin[r] = "context" =>
                    /\ Yield(r, "citations") = <<>>
                    /\ sources[r] = Yield(r, "context"))
            /\ (origin[r] = "grounding_data" =>
                    /\ Yield(r, "citations") = <<>>
                    /\ Yield(r, "context") = <<>>
                    /\ sources[r] = Yield(r, "grounding_data"))
            /\ (origin[r] # "default" =>
                    \A i \in 1..Len(sources[r]) : NonEmptyReference(sources[r][i]))

\* the fixed title / filepath pairs of each category
FixedDocs ==
    [hr |-> << <<"Employee_Handbook.pdf", "hr-policies/Employee_Handbook.pdf">>,
               <<"PTO_Policy_2024.docx", "hr-policies/PTO_Policy_2024.docx">>,
               <<"Benefits_Guide.pdf", "hr-policies/Benefits_Guide.pdf">> >>,
     marketing |-> << <<"Brand_Guidelines.pdf", "marketing/Brand_Guidelines.pdf">>,
                      <<"Campaign_Playbook.pptx", "marketing/Campaign_Playbook.pptx">> >>,
     products |-> << <<"Product_Catalog_2024.xlsx", "products/Product_Catalog_2024.xlsx">>,
                     <<"Specifications.pdf", "products/Specifications.pdf">> >>]

NothingYielded(r) ==
    /\ Yield(r, "citations") = <<>>
    /\ Yield(r, "context") = <<>>
    /\ Yield(r, "grounding_data") = <<>>

\* C5: when the request succeeds and none of citations, context,
\* grounding_data yields a reference, the sources answered are the fixed list
\* of the dispatched category (3 for hr, 2 for marketing, 2 for products),
\* each entry tagged for the category with its fixed title and filepath; the
\* sources of a successful request are never empty.
C5_DefaultSources ==
    \A r \in Requests :
        http[r].status = 200 =>
            /\ http[r].sources # <<>>
            /\ (NothingYielded(r) =>
                    /\ Len(http[r].sources) = Len(FixedDocs[route[r]])
                    /\ Len(http[r].sources) = (IF route[r] = "hr" THEN 3 ELSE 2)
                    /\ \A i \in 1..Len(http[r].sources) :
                          http[r].sources[i] =
                              [kb       |-> BoundKb[route[r]],
                               title    |-> FixedDocs[route[r]][i][1],
                               filepath |-> FixedDocs[route[r]][i][2]])

\* a products request whose response had citations that yielded nothing
C5_Witness ==
    /\ http[1].status = 200
    /\ route[1] = "products"
    /\ HasTruthy(response[1], "citations")
    /\ NothingYielded(1)
    /\ Len(http[1].sources) = 2

\* C6: a request in which any step raised is answered with status 500 and the
\* stringified error as detail, and nothing else; status 200 with message,
\* agent and sources is answered only when every step completed; no agent
\* run is issued twice.
C6_ErrorsBecome500 ==
    \A r \in Requests :
        /\ (raised[r] # NoError =>
                /\ pc[r] = "done"
                /\ http[r] = [status |-> 500, detail |-> raised[r].msg])
        /\ (pc[r] = "done" => http[r].status \in {200, 500})
        /\ (pc[r] # "done" => http[r] = NoHttp)
        /\ (http[r].status = 500 => raised[r] # NoError)
        /\ (http[r].status = 200 =>
                /\ raised[r] = NoError
                /\ DOMAIN http[r] = {"status", "message", "agent", "sources"}
                /\ "text" \in DOMAIN response[r]
                /\ http[r].message = response[r].text
                /\ http[r].agent = route[r] \o "-agent"
                /\ http[r].sources = sources[r]
                /\ \A h \in HandleNames \ {"credential"} : handles[r][h] = "closed")
        /\ \A i, j \in 1..Len(calls[r]) : calls[r][i] = calls[r][j] => i = j

\* the response of the specialist had no text: the request ended in a 500
C6_Witness ==
    /\ pc[1] = "done"
    /\ http[1].status = 500
    /\ raised[1] = E_NoText
    /\ Len(calls[1]) = 2
    /\ sources[1] # <<>>

\* C7 as stated: a request suspends on exactly one external call.
C7_OneBlockingPoint ==
    \A r \in Requests : http[r].status = 200 => Len(calls[r]) = 1

\* C7 amended: a request that is answered has suspended on exactly two
\* external agent runs, the router's and then the specialist's; no request
\* suspends on more than two, and the specialist's run is never the first.
C7_TwoBlockingPoints ==
    \A r \in Requests :
        /\ Len(calls[r]) <= 2
        /\ (http[r].status = 200 =>
                /\ Len(calls[r]) = 2
                /\ calls[r][1].agent = "router"
                /\ calls[r][2].agent \in Categories)
        /\ (pc[r] = "route" => Len(calls[r]) = 1 /\ calls[r][1].agent = "router")
        /\ (pc[r] = "agent" => Len(calls[r]) = 2 /\ calls[r][2].agent \in Categories)

\* an answered request with its two agent runs
C7_Witness ==
    /\ http[1].status = 200
    /\ Len(calls[1]) = 2
    /\ calls[1][1].agent = "router"
    /\ calls[1][2].agent = "products"

\* the response of a request handled alone with the same inputs
AloneResponse(q, reply, resp) ==
    [status  |-> 200,
     message |-> resp.text,
     agent   |-> FirstMatch(reply) \o "-agent",
     sources |-> Extract(resp, FirstMatch(reply)).sources]

\* C8: under any interleaving of concurrent requests, every agent run of a
\* request goes through a handle that request created and carries that
\* request's query, the handles of a request that has not started are
\* untouched, and the response of each request is the one it would get alone
\* from the same external replies.
C8_RequestsIndependent ==
    \A r \in Requests :
        /\ \A i \in 1..Len(calls[r]) :
              /\ calls[r][i].via[1] = r
              /\ calls[r][i].text = query[r]
        /\ (pc[r] = "idle" => \A h \in HandleNames : handles[r][h] = "none")
        /\ (pc[r] \in {"route", "agent", "exit"} =>
                \A h \in HandleNames : handles[r][h] = "open")
        /\ (http[r].status = 200 =>
                http[r] = AloneResponse(query[r], routerReply[r], response[r]))

\* two requests in flight at once, routed to different specialists
C8_Witness ==
    /\ pc[1] = "exit"
    /\ pc[2] = "agent"
    /\ route[1] # route[2]
    /\ query[1] # query[2]

\* C9 as stated: the credential a request instantiated is closed by the time
\* the request has finished.
C9_CredentialClosed ==
    \A r \in Requests :
        pc[r] = "done" /\ handles[r]["credential"] # "none" =>
            handles[r]["credential"] = "closed"

\* s is w up to letter case
SameAnyCase(s, w) ==
    /\ Len(s) = Len(w)
    /\ \A i \in 1..Len(s) : LowerChar(s[i]) = w[i]

\* the line, its surrounding whitespace dropped, is quit, exit or q
QuitLine(line) ==
    \E w \in {W_quit, W_exit, W_q} : SameAnyCase(Strip(line), w)

BlankLine(line) == \A i \in 1..Len(line) : line[i] \in Whitespace

\* C10: in the interactive loop an error never ends the loop; the loop ends
\* only on quit, exit or q in any letter case or on a keyboard interrupt; a
\* blank input makes no external call; the routing run precedes the
\* specialist's run, which is made only after routing succeeded.
C10_LoopSurvivesErrors ==
    /\ (levent.kind = "error" => lpc = "input" /\ lcred = "open")
    /\ (lpc = "done" =>
            \/ levent.kind = "interrupt"
            \/ levent.kind = "input" /\ QuitLine(levent.line))
    /\ (levent.kind = "input" /\ QuitLine(levent.line) => lpc = "done")
    /\ (levent.kind = "input" /\ BlankLine(levent.line) =>
            lcalls = <<>> /\ lpc = "input")
    /\ (levent.kind = "input" /\ ~BlankLine(levent.line) /\ ~QuitLine(levent.line) =>
            lcalls = <<"router">> /\ lpc = "routing")
    /\ (lcalls # <<>> => lcalls[1] = "router")
    /\ Len(lcalls) <= 2
    /\ (Len(lcalls) = 2 => lroute = lcalls[2] /\ lcalls[2] \in Categories)
    /\ (lpc = "answering" <=> levent.kind = "routed")
    /\ (levent.kind = "error" /\ levent.at = "routing" => lcalls = <<"router">>)
    /\ (levent.kind = "routed" => Len(lcalls) = 2)

\* the loop went on after the routing run of a question raised
C10_Witness ==
    /\ levent.kind = "error"
    /\ levent.at = "routing"
    /\ lpc = "input"
    /\ lquery = Q_ProductSpecs

=============================================================================
